---- MODULE Spec2Model ----
(***************************************************************************)
(* BrowserPool of src/src/browser.ts as a state machine.                   *)
(*                                                                         *)
(* The program is single-threaded JavaScript: code between two awaits runs *)
(* atomically, and every await of a remote call (connect, newPage, goto,   *)
(* close, the caller's action) is a point where other callbacks run.  One  *)
(* action of the model is one such atomic block: the completion of the     *)
(* pending remote call of one asynchronous activity together with all the  *)
(* synchronous code that follows it up to the next remote call.            *)
(*                                                                         *)
(* Objects live on a heap, as in the program: a pool slot (PooledPage) is  *)
(* an object that replacePage and releasePage keep a reference to after    *)
(* this.pool has been replaced; this.pool is a reference to an array that  *)
(* handleBrowserDisconnection keeps iterating after it was replaced.       *)
(***************************************************************************)
EXTENDS Integers, Sequences, FiniteSets

\* ---- bounds of the model
POOL_SIZE == 1          \* slots per pool (the program builds 10)
NumTasks == 3           \* calls of the public API per run
MaxHandlers == 2        \* callbacks in flight besides the callers
MaxConns == 2           \* connections the remote engine ever accepts
MaxPages == 3           \* sessions the remote engine ever opens
MaxDisturb == 2         \* disturbances per run: transient failures of remote calls,
                        \* notifications sent by the engine, keepalive ticks
MaxMono == 5200         \* horizon of the monotonic clock, in ms
MaxCallTime == 50       \* the API is called during the first MaxCallTime ms
TimeOrigin == 1000000   \* wall clock at process start, ms since the epoch
RpcCalls == 1            \* RPC requests received
poolSize == 1            \* sessions the BrowserManager of part_003 opens at first
RetryCalls == 1         \* calls of withPage per run of the retrying revision
MaxAttempts == 5        \* connection attempts counted per activity before the
                        \* count wraps

\* ---- program constants
MAX_WAIT_MS == 5000
POLL_MS == 50
RETRIES == 2            \* async-retry option `retries` of the retrying revision
RPC_RETRIES == 4        \* `retries` of handleRequest in src/src/rpc.ts
RPC_RETRIES_0 == 2      \* `retries` of handleRequest in part_000
RPC_ERROR_CODE == 32603 \* the code of every RPC error is -RPC_ERROR_CODE
HTTP_OK == 200          \* the status of a response that sets none

VARIABLES
    browser,            \* this.browser: 0 is null, else a connection id
    connecting,         \* this.connecting
    keepaliveInterval,  \* this.keepaliveInterval is non-null
    timerActive,        \* number of interval timers currently scheduled
    pool,               \* this.pool: the id of an array
    arrays,             \* heap of arrays: sequence of sequences of slot ids
    slots,              \* heap of PooledPage objects: [page, inUse]
    pages,              \* remote sessions: [conn, open]
    conns,              \* connections: TRUE while the remote end is up
    proc,               \* the asynchronous activities in flight
    obs,                \* per caller in flight: what its call did so far
    ret,                \* what the last step returned to a caller, if it did
    disturb,            \* disturbances so far
    mono,               \* monotonic clock, ms since process start
    clockSrc,           \* the clock acquirePage reads its startTime from
    initialized,        \* initialize has completed successfully at least once
    exhausted,          \* a handleBrowserDisconnection has given up reconnecting
    unusable,           \* the slots whose replacement session could not be created
    rpc,                \* per caller: the RPC request it serves (RPCHandler)
    server,             \* the process: its environment and whether it listens
    mgr                 \* the mutex-guarded pool (BrowserManager, part_003)

vars == <<browser, connecting, keepaliveInterval, timerActive, pool, arrays,
          slots, pages, conns, proc, obs, ret, disturb, mono, clockSrc,
          initialized, exhausted, unusable, rpc, server, mgr>>

Tasks == 1..NumTasks
Handlers == (NumTasks + 1)..(NumTasks + MaxHandlers)
Procs == Tasks \cup Handlers

Min(S) == CHOOSE x \in S : \A y \in S : x <= y

NoProc == [kind |-> "none", pc |-> "idle", slot |-> 0, page |-> 0, conn |-> 0,
           i |-> 0, arr |-> 0, idx |-> 0, start |-> 0, t0 |-> 0, wake |-> 0,
           stack |-> <<>>, attempts |-> 0]

\* a caller whose call has returned
Returned == [NoProc EXCEPT !.kind = "returned"]

NoObs == [acq |-> 0, rel |-> 0, got |-> 0, gotSlot |-> 0, relSame |-> FALSE,
          relSlot |-> 0, result |-> "none"]

\* no RPC request is being served by the caller
NoRpc == [state |-> "none", method |-> "", id |-> "", params |-> "none",
          attempts |-> 0, errors |-> <<>>, render |-> "none", responses |-> <<>>]

\* the process before Server.start: revision is "src" (src/src/rpc.ts with
\* src/src/browser.ts) or "part_000"; endpoint: BROWSER_WS_ENDPOINT is set
NoServer == [revision |-> "src", endpoint |-> TRUE, listening |-> FALSE]

\* one caller of the BrowserManager of part_003: where it is, the page it
\* holds, the createPage of initialize it awaits, what its capture gave
NoCaller == [pc |-> "idle", page |-> 0, i |-> 0, res |-> "none"]

\* the BrowserManager of part_003 after construction (lines 7-9); holder and
\* queue are its Mutex, created is the number of sessions opened so far
NoMgr == [browser |-> 0, pages |-> <<>>, holder |-> 0, queue |-> <<>>,
          created |-> 0, task |-> [t \in Tasks |-> NoCaller]]

NoRet == [task |-> 0, op |-> "none", outcome |-> "none", result |-> "none",
          acq |-> 0, rel |-> 0, relSame |-> FALSE, slot |-> 0, relSlot |-> 0,
          elapsed |-> 0]

\* ---- RPCHandler.handleRequest (src/src/rpc.ts; part_000 lines 1-73)
\* attempts async-retry makes: the first one and `retries` more
MaxCaptureAttempts == (IF server.revision = "src" THEN RPC_RETRIES ELSE RPC_RETRIES_0) + 1

\* an Error with its message: the text and what is interpolated into it
Thrown(text) == [text |-> text, arg |-> ""]

\* the error async-retry rejects with once the attempts are used up
\* (reject(op.mainError())): the message that occurred most often among the
\* attempts' errors, the later one when two occurred equally often
Occurrences(errs, i) == Cardinality({j \in 1..i : errs[j] = errs[i]})
RECURSIVE MainUpTo(_, _)
MainUpTo(errs, i) ==
    IF i = 0 THEN [e |-> Thrown(""), n |-> 0]
    ELSE LET m == MainUpTo(errs, i - 1)
         IN  IF Occurrences(errs, i) >= m.n
             THEN [e |-> errs[i], n |-> Occurrences(errs, i)]
             ELSE m
MainError(errs) == MainUpTo(errs, Len(errs)).e

\* Buffer.from(pdf).toString('base64') (line 42)
Base64(pdf) == <<"base64", pdf>>

\* a handler that answers an RPC error with a server-error status
StatusOfError == HTTP_OK + 300

\* res.json (lines 40, 55): Express sends the body with the status set before,
\* which nobody sets
StatusSent == HTTP_OK

\* res.json({jsonrpc, result, id}) (lines 40-44)
SuccessResponse(id, pdf) ==
    [status |-> StatusSent, id |-> id,
     result |-> [present |-> TRUE, value |-> Base64(pdf)],
     error |-> [present |-> FALSE, code |-> 0, message |-> ""]]

\* res.json({jsonrpc, error: {code, message}, id}) (lines 55-62)
ErrorResponse(id, msg) ==
    [status |-> StatusSent, id |-> id,
     result |-> [present |-> FALSE, value |-> <<>>],
     error |-> [present |-> TRUE, code |-> 0 - RPC_ERROR_CODE, message |-> msg]]

\* a handler that answers every failed attempt
AnswersEveryFailure(k) == TRUE

\* handleRequest answers a failure when retry has rejected (lines 29, 51):
\* after attempt k only if that was the last one
AnswersFailure(k) == k >= MaxCaptureAttempts

\* capturePDF is called with params.url alone (rpc.ts line 32) and renders with
\* its own literal options (browser.ts lines 289-293)
PdfOptionsUsed(params) == "default"

\* capturePDF has settled for request rq with outcome out; acted: its action
\* ran (lines 29-62)
Settled(rq, out, acted) ==
    LET k == rq.attempts + 1
        errs == Append(rq.errors, Thrown(out))
        rendered == IF acted THEN PdfOptionsUsed(rq.params) ELSE rq.render
    IN  IF out = "ok"
        THEN [rq EXCEPT !.state = "done", !.attempts = k, !.render = rendered,
                        !.responses = Append(@, SuccessResponse(rq.id, "pdf"))]
        ELSE IF AnswersFailure(k)
        THEN [rq EXCEPT !.state = IF k >= MaxCaptureAttempts THEN "done" ELSE @,
                        !.attempts = k, !.errors = errs, !.render = rendered,
                        !.responses = Append(@, ErrorResponse(rq.id, MainError(errs)))]
        ELSE [rq EXCEPT !.attempts = k, !.errors = errs, !.render = rendered]

\* what the return rt of a withPage means to the request of its caller
RpcAfter(r, rt) ==
    IF rt.task = 0 THEN r
    ELSE IF r[rt.task].state # "serving" THEN r
    ELSE [r EXCEPT ![rt.task] = Settled(@, rt.outcome, rt.result = "ok")]

\* ---- clocks (performance.now() and Date.now())
PerformanceNow == mono
DateNow == TimeOrigin + mono

\* ---- the pool as the code reads it
PoolArr == arrays[pool]
PoolSlots == {PoolArr[k] : k \in 1..Len(PoolArr)}

\* this.pool.find(p => p.page === page): the first match, 0 when there is none
FindSlot(page) ==
    LET ks == {k \in 1..Len(PoolArr) : slots[PoolArr[k]].page = page}
    IN  IF ks = {} THEN 0 ELSE PoolArr[Min(ks)]

\* the first slot of the pool whatever its inUse flag, 0 when the pool is empty
FindFirst == IF Len(PoolArr) = 0 THEN 0 ELSE PoolArr[1]

\* this.pool.find(p => !p.inUse)
FindFree ==
    LET ks == {k \in 1..Len(PoolArr) : ~slots[PoolArr[k]].inUse}
    IN  IF ks = {} THEN 0 ELSE PoolArr[Min(ks)]

\* ---- the remote engine
ConnUp(c) == c \in 1..Len(conns) /\ conns[c]
PageUp(p) == p \in 1..Len(pages) /\ pages[p].open /\ ConnUp(pages[p].conn)

\* a newPage that hands out the engine's first session again
FirstPage == IF pages = <<>> THEN Len(pages) + 1 ELSE 1

\* browser.newPage() (createPage line 39): the engine opens a new session
NewPage == Len(pages) + 1

\* A remote call that can succeed may also fail (a transient failure, counted).
MayFail(canSucceed) == ~canSucceed \/ disturb < MaxDisturb
FaultCount(canSucceed) == IF canSucceed THEN disturb + 1 ELSE disturb

FreeH(pr) == {h \in Handlers : pr[h].kind = "none"}

\* page.on('close' | 'error' | 'pageerror') -> handlePageDisconnection(page):
\* the synchronous part, up to the await of page.close() inside replacePage.
CanPageDisc(pr, q) == FindSlot(q) = 0 \/ FreeH(pr) # {}
HandlePageDisconnection(pr, q) ==
    IF FindSlot(q) = 0 THEN pr
    ELSE [pr EXCEPT ![Min(FreeH(pr))] =
            [NoProc EXCEPT !.kind = "pagedisc", !.pc = "rp_close",
                           !.slot = FindSlot(q), !.page = slots[FindSlot(q)].page]]

Init ==
    /\ browser = 0
    /\ connecting = FALSE
    /\ keepaliveInterval = FALSE
    /\ timerActive = 0
    /\ pool = 1
    /\ arrays = << <<>> >>
    /\ slots = <<>>
    /\ pages = <<>>
    /\ conns = <<>>
    /\ proc = [p \in Procs |-> NoProc]
    /\ obs = [t \in Tasks |-> NoObs]
    /\ ret = NoRet
    /\ disturb = 0
    /\ mono = 0
    /\ clockSrc = "performance"
    /\ initialized = FALSE
    /\ exhausted = FALSE
    /\ unusable = {}
    /\ rpc = [t \in Tasks |-> NoRpc]
    /\ server = NoServer
    /\ mgr = NoMgr

\* ---- how an activity goes on or ends.  Each sets proc', obs' and ret'.
\* The activity is still in flight; o is the caller's history so far.
GoOn(pr, self, o) ==
    /\ proc' = pr
    /\ obs' = IF self \in Tasks THEN [obs EXCEPT ![self] = o] ELSE obs
    /\ ret' = NoRet

\* The outermost call of the activity returns or throws `out` to its caller:
\* withPage or initialize to the caller of the API, a callback to the event loop.
Return(pr, self, op, o, out, e) ==
    /\ proc' = [pr EXCEPT ![self] = IF self \in Tasks THEN Returned ELSE NoProc]
    /\ obs' = IF self \in Tasks THEN [obs EXCEPT ![self] = NoObs] ELSE obs
    /\ ret' = IF self \in Tasks
              THEN [task |-> self, op |-> op, outcome |-> out, result |-> o.result,
                    acq |-> o.acq, rel |-> o.rel, relSame |-> o.relSame,
                    slot |-> o.gotSlot, relSlot |-> o.relSlot, elapsed |-> e]
              ELSE NoRet

ObsOf(self) == IF self \in Tasks THEN obs[self] ELSE NoObs

\* a withPage that releases after `return result` only, not in a finally block
ReleasesOnSuccessOnly(r) == r = "ok"

\* withPage line 271: the finally block releases on every exit path of the action
WithPageReleases(r) == TRUE

\* withPage lines 267 and 270: what it hands to its caller once releasePage
\* has returned normally
WithPageOutcome(r) == r

\* an initialize that looks at this.browser alone
GuardsOnBrowserOnly == browser # 0

\* initialize line 107: the guard of the no-op
InitializeIsNoop == browser # 0 \/ connecting

\* acquirePage line 186 (part_000 line 318 reads Date.now() instead)
StartTimeRead == IF clockSrc = "performance" THEN PerformanceNow ELSE DateNow

\* an acquirePage that never gives up
NeverTimesOut(start) == FALSE

\* acquirePage line 199
TimedOut(start) == DateNow - start > MAX_WAIT_MS

\* an acquirePage that frees the first slot of the pool before it gives up
FirstSlotFreed == IF FindFirst = 0 THEN slots ELSE [slots EXCEPT ![FindFirst].inUse = FALSE]

\* acquirePage lines 199-203: the timeout branch counts the slots in use, logs
\* and throws; it writes no slot
SlotsAtTimeout == slots

\* acquirePage, one pass of its loop (lines 186-207); entry: the call starts
\* here.  On success withPage goes on to start the action (lines 260-264).
\* Sets slots', proc', obs' and ret'.
AcquirePage(self, entry) ==
    LET start == IF entry THEN StartTimeRead ELSE proc[self].start
        t0 == IF entry THEN mono ELSE proc[self].t0
        o == IF entry THEN [obs[self] EXCEPT !.acq = @ + 1] ELSE obs[self]
        s == FindFree
    IN  IF s # 0
        THEN /\ slots' = [slots EXCEPT ![s].inUse = TRUE]
             /\ GoOn([proc EXCEPT ![self] =
                        [NoProc EXCEPT !.kind = "withPage", !.pc = "wp_action",
                                       !.page = slots[s].page]],
                     self, [o EXCEPT !.got = slots[s].page, !.gotSlot = s])
        ELSE IF TimedOut(start)
        THEN /\ slots' = SlotsAtTimeout
             /\ Return(proc, self, "withPage", o, "timeout", mono - t0)
        ELSE /\ slots' = slots
             /\ GoOn([proc EXCEPT ![self] =
                        [NoProc EXCEPT !.kind = "withPage", !.pc = "wp_sleep",
                                       !.start = start, !.t0 = t0,
                                       !.wake = mono + POLL_MS]],
                     self, o)

IdleTasks == {t \in Tasks : proc[t].kind = "none"}

\* withPage runs up to its first await (lines 251-259)
WithPageEntry(self) ==
    /\ IF browser = 0
       THEN /\ IF InitializeIsNoop
               THEN /\ GoOn([proc EXCEPT ![self] =
                               [NoProc EXCEPT !.kind = "withPage", !.pc = "wp_acquire"]],
                            self, NoObs)
                    /\ connecting' = connecting
               ELSE /\ GoOn([proc EXCEPT ![self] =
                               [NoProc EXCEPT !.kind = "withPage",
                                              !.pc = "init_connect"]],
                            self, NoObs)
                    /\ connecting' = TRUE
            /\ UNCHANGED slots
       ELSE /\ AcquirePage(self, TRUE)
            /\ UNCHANGED connecting
    /\ UNCHANGED <<browser, keepaliveInterval, timerActive, pool, arrays, pages,
                   conns, disturb, mono, clockSrc, initialized, exhausted>>
    /\ UNCHANGED <<unusable, server, mgr>>

\* withPage is called
Call(self) ==
    /\ IdleTasks # {} /\ self = Min(IdleTasks)
    /\ WithPageEntry(self)
    /\ rpc' = RpcAfter(rpc, ret')

\* initialize is called from outside (it is a public method; lines 106-114)
CallInitialize(self) ==
    /\ IdleTasks # {} /\ self = Min(IdleTasks)
    /\ IF InitializeIsNoop
       THEN /\ Return(proc, self, "initialize", NoObs, "noop", 0)
            /\ connecting' = connecting
       ELSE /\ GoOn([proc EXCEPT ![self] =
                       [NoProc EXCEPT !.kind = "initialize", !.pc = "init_connect"]],
                    self, NoObs)
            /\ connecting' = TRUE
    /\ UNCHANGED <<browser, keepaliveInterval, timerActive, pool, arrays, slots,
                   pages, conns, disturb, mono, clockSrc, initialized, exhausted>>
    /\ rpc' = RpcAfter(rpc, ret')
    /\ UNCHANGED <<unusable, server, mgr>>

\* withPage resumes after `await this.initialize()`, or acquirePage wakes from
\* its 50 ms sleep (lines 189-207)
AcquireIter(self) ==
    /\ \/ proc[self].pc = "wp_acquire" /\ AcquirePage(self, TRUE)
       \/ proc[self].pc = "wp_sleep" /\ mono >= proc[self].wake
            /\ AcquirePage(self, FALSE)
    /\ UNCHANGED <<browser, connecting, keepaliveInterval, timerActive, pool,
                   arrays, pages, conns, disturb, mono, clockSrc, initialized, exhausted>>
    /\ rpc' = RpcAfter(rpc, ret')
    /\ UNCHANGED <<unusable, server, mgr>>

\* initialize returned: withPage goes on to acquirePage (line 259), the other
\* callers (the API's caller, handleBrowserDisconnection) are done
InitReturns(self) ==
    IF proc[self].kind = "withPage"
    THEN GoOn([proc EXCEPT ![self] =
                 [NoProc EXCEPT !.kind = "withPage", !.pc = "wp_acquire"]],
              self, ObsOf(self))
    ELSE Return(proc, self, proc[self].kind, ObsOf(self), "ok", 0)

\* initialize threw (lines 149-154): every caller passes the error on;
\* handleBrowserDisconnection gives up (lines 179-182)
InitThrows(self) ==
    /\ Return(proc, self, proc[self].kind, ObsOf(self), "initerr", 0)
    /\ exhausted' = (exhausted \/ proc[self].kind = "hbd")

\* puppeteer.connect settles (initialize lines 117-138)
InitConnectDone(self) ==
    /\ proc[self].pc = "init_connect"
    /\ \/ /\ Len(conns) < MaxConns
          /\ conns' = Append(conns, TRUE)
          /\ browser' = Len(conns) + 1
          /\ keepaliveInterval' = TRUE
          /\ timerActive' = timerActive + 1 - (IF keepaliveInterval THEN 1 ELSE 0)
          /\ GoOn([proc EXCEPT ![self].pc = "init_page", ![self].i = 0,
                               ![self].conn = Len(conns) + 1],
                  self, ObsOf(self))
          /\ UNCHANGED <<connecting, disturb, exhausted>>
       \/ /\ MayFail(Len(conns) < MaxConns)
          /\ disturb' = FaultCount(Len(conns) < MaxConns)
          /\ connecting' = FALSE
          /\ InitThrows(self)
          /\ UNCHANGED <<conns, browser, keepaliveInterval, timerActive>>
    /\ UNCHANGED <<pool, arrays, slots, pages, mono, clockSrc, initialized>>
    /\ rpc' = RpcAfter(rpc, ret')
    /\ UNCHANGED <<unusable, server, mgr>>

\* createPage settles inside the loop of initialize (lines 136-154)
InitPageDone(self) ==
    /\ proc[self].pc = "init_page"
    /\ LET c == proc[self].conn
           p == NewPage
           s == Len(slots) + 1
       IN  \/ /\ ConnUp(c) /\ Len(pages) < MaxPages
              /\ pages' = Append(pages, [conn |-> c, open |-> TRUE])
              /\ slots' = Append(slots, [page |-> p, inUse |-> FALSE])
              /\ arrays' = [arrays EXCEPT ![pool] = Append(@, s)]
              /\ disturb' = disturb
              /\ IF proc[self].i + 1 < POOL_SIZE
                 THEN IF browser = 0
                      THEN /\ connecting' = FALSE
                           /\ InitThrows(self)
                      ELSE /\ connecting' = connecting
                           /\ GoOn([proc EXCEPT ![self].i = @ + 1,
                                                ![self].conn = browser],
                                   self, ObsOf(self))
                           /\ UNCHANGED exhausted
                 ELSE /\ connecting' = FALSE
                      /\ InitReturns(self)
                      /\ UNCHANGED exhausted
              /\ initialized' = (initialized \/ proc[self].i + 1 >= POOL_SIZE)
           \/ /\ MayFail(ConnUp(c) /\ Len(pages) < MaxPages)
              /\ disturb' = FaultCount(ConnUp(c) /\ Len(pages) < MaxPages)
              /\ connecting' = FALSE
              /\ InitThrows(self)
              /\ UNCHANGED <<pages, slots, arrays, initialized>>
    /\ UNCHANGED <<browser, keepaliveInterval, timerActive, pool, conns, mono,
                   clockSrc>>
    /\ rpc' = RpcAfter(rpc, ret')
    /\ UNCHANGED <<unusable, server, mgr>>

\* the caller's action settles with result r; the finally block of withPage
\* runs releasePage up to `await page.goto('about:blank')` (lines 264-272,
\* 230-237)
ActionDone(self, r) ==
    /\ proc[self].pc = "wp_action"
    /\ LET h == proc[self].page
           s == FindSlot(h)
           o == [obs[self] EXCEPT !.result = r]
           oRel == [o EXCEPT !.rel = @ + 1, !.relSame = (h = obs[self].got),
                             !.relSlot = s]
       IN  IF WithPageReleases(r)
           THEN IF s = 0
                THEN Return(proc, self, "withPage", oRel, WithPageOutcome(r), 0)
                ELSE GoOn([proc EXCEPT ![self].pc = "rel_reset", ![self].slot = s],
                          self, oRel)
           ELSE Return(proc, self, "withPage", o, WithPageOutcome(r), 0)
    /\ UNCHANGED <<browser, connecting, keepaliveInterval, timerActive, pool,
                   arrays, slots, pages, conns, disturb, mono, clockSrc, initialized, exhausted>>
    /\ rpc' = RpcAfter(rpc, ret')
    /\ UNCHANGED <<unusable, server, mgr>>

\* a release or replacement that addresses its slot by position in this.pool
SlotByPosition(self) == IF Len(PoolArr) = 0 THEN proc[self].slot ELSE PoolArr[1]

\* releasePage line 232, replacePage line 210: the PooledPage object the call
\* holds on to across its awaits
HeldSlot(self) == proc[self].slot

\* replacePage returned to its caller: releasePage in the finally block of
\* withPage, which then hands the action's outcome on (lines 246, 272), or
\* handlePageDisconnection (line 68)
RpReturns(pr, self) ==
    Return(pr, self, pr[self].kind, ObsOf(self),
           WithPageOutcome(ObsOf(self).result), 0)

\* replacePage threw (line 226): out of releasePage and of the finally block
\* of withPage, or into the catch of handlePageDisconnection (line 70)
RpThrows(pr, self) ==
    Return(pr, self, pr[self].kind, ObsOf(self), "relerr", 0)

\* the reset (goto about:blank, reload) settles (releasePage lines 237-247)
RelResetDone(self) ==
    /\ proc[self].pc = "rel_reset"
    /\ LET h == proc[self].page
           s == HeldSlot(self)
       IN  \/ /\ PageUp(h)
              /\ slots' = [slots EXCEPT ![s].inUse = FALSE]
              /\ RpReturns(proc, self)
              /\ disturb' = disturb
           \/ /\ MayFail(PageUp(h))
              /\ disturb' = FaultCount(PageUp(h))
              /\ GoOn([proc EXCEPT ![self].pc = "rp_close",
                                   ![self].page = slots[s].page],
                      self, ObsOf(self))
              /\ slots' = slots
    /\ UNCHANGED <<browser, connecting, keepaliveInterval, timerActive, pool,
                   arrays, pages, conns, mono, clockSrc, initialized, exhausted>>
    /\ rpc' = RpcAfter(rpc, ret')
    /\ UNCHANGED <<unusable, server, mgr>>

\* replacePage: page.close() settles; createPage starts, and throws at once
\* when this.browser is null (lines 211-220, 39)
RpCloseDone(self) ==
    /\ proc[self].pc = "rp_close"
    /\ LET q == proc[self].page
           after(pr) == IF browser = 0 THEN RpThrows(pr, self)
                        ELSE GoOn([pr EXCEPT ![self].pc = "rp_create",
                                             ![self].page = 0,
                                             ![self].conn = browser],
                                  self, ObsOf(self))
       IN  \/ /\ PageUp(q) /\ CanPageDisc(proc, q)
              /\ pages' = [pages EXCEPT ![q].open = FALSE]
              /\ after(HandlePageDisconnection(proc, q))
              /\ disturb' = disturb
           \/ /\ MayFail(PageUp(q))
              /\ disturb' = FaultCount(PageUp(q))
              /\ pages' = pages
              /\ after(proc)
    /\ UNCHANGED <<browser, connecting, keepaliveInterval, timerActive, pool,
                   arrays, slots, conns, mono, clockSrc, initialized, exhausted>>
    /\ unusable' = IF browser = 0 THEN unusable \cup {proc[self].slot} ELSE unusable
    /\ rpc' = RpcAfter(rpc, ret')
    /\ UNCHANGED <<server, mgr>>

\* replacePage: createPage settles (lines 220-227)
RpCreateDone(self) ==
    /\ proc[self].pc = "rp_create"
    /\ LET c == proc[self].conn
           s == HeldSlot(self)
       IN  \/ /\ ConnUp(c) /\ Len(pages) < MaxPages
              /\ pages' = Append(pages, [conn |-> c, open |-> TRUE])
              /\ slots' = [slots EXCEPT ![s] =
                             [page |-> NewPage, inUse |-> FALSE]]
              /\ RpReturns(proc, self)
              /\ unusable' = unusable \ {s}
              /\ disturb' = disturb
           \/ /\ MayFail(ConnUp(c) /\ Len(pages) < MaxPages)
              /\ disturb' = FaultCount(ConnUp(c) /\ Len(pages) < MaxPages)
              /\ RpThrows(proc, self)
              /\ UNCHANGED <<pages, slots>>
              /\ unusable' = unusable \cup {s}
    /\ UNCHANGED <<browser, connecting, keepaliveInterval, timerActive, pool,
                   arrays, conns, mono, clockSrc, initialized, exhausted>>
    /\ rpc' = RpcAfter(rpc, ret')
    /\ UNCHANGED <<server, mgr>>

\* handleBrowserDisconnection, the loop over this.pool from its k-th element
\* (lines 164-177): the next close is awaited, or the state is reset and
\* initialize is called, which passes its guard and awaits the connection.
\* Sets browser', connecting', pool', arrays', proc', obs' and ret'.
HbdIter(self, pr, a, k) ==
    IF k <= Len(arrays[a])
    THEN /\ GoOn([pr EXCEPT ![self] =
                    [NoProc EXCEPT !.kind = "hbd", !.pc = "hbd_close", !.arr = a,
                                   !.idx = k, !.page = slots[arrays[a][k]].page]],
                 self, NoObs)
         /\ UNCHANGED <<browser, connecting, pool, arrays>>
    ELSE /\ browser' = 0
         /\ arrays' = Append(arrays, <<>>)
         /\ pool' = Len(arrays) + 1
         /\ connecting' = TRUE
         /\ GoOn([pr EXCEPT ![self] =
                    [NoProc EXCEPT !.kind = "hbd", !.pc = "init_connect"]],
                 self, NoObs)

\* handleBrowserDisconnection from its first line (lines 157-164)
HbdStart(self, pr) ==
    /\ keepaliveInterval' = FALSE
    /\ timerActive' = timerActive - (IF keepaliveInterval THEN 1 ELSE 0)
    /\ HbdIter(self, pr, pool, 1)

\* handleBrowserDisconnection: a close of the loop settles (line 166)
HbdCloseDone(self) ==
    /\ proc[self].pc = "hbd_close"
    /\ LET q == proc[self].page
           a == proc[self].arr
           k == proc[self].idx
       IN  \/ /\ PageUp(q) /\ CanPageDisc(proc, q)
              /\ pages' = [pages EXCEPT ![q].open = FALSE]
              /\ disturb' = disturb
              /\ HbdIter(self, HandlePageDisconnection(proc, q), a, k + 1)
           \/ /\ MayFail(PageUp(q))
              /\ disturb' = FaultCount(PageUp(q))
              /\ pages' = pages
              /\ HbdIter(self, proc, a, k + 1)
    /\ UNCHANGED <<keepaliveInterval, timerActive, slots, conns, mono, clockSrc,
                   initialized, exhausted>>
    /\ rpc' = RpcAfter(rpc, ret')
    /\ UNCHANGED <<unusable, server, mgr>>

\* the remote engine drops connection c: browser.on('disconnected') (lines 125-128)
BrowserDisconnected(c) ==
    /\ ConnUp(c)
    /\ FreeH(proc) # {}
    /\ disturb < MaxDisturb
    /\ disturb' = disturb + 1
    /\ conns' = [conns EXCEPT ![c] = FALSE]
    /\ HbdStart(Min(FreeH(proc)), proc)
    /\ UNCHANGED <<slots, pages, mono, clockSrc, initialized, exhausted>>
    /\ rpc' = RpcAfter(rpc, ret')
    /\ UNCHANGED <<unusable, server, mgr>>

\* the 3 s interval fires: keepAliveBrowser up to its first await (lines 97-99,
\* 75-80)
KeepaliveTick ==
    /\ disturb < MaxDisturb
    /\ disturb' = disturb + 1
    /\ timerActive > 0
    /\ browser # 0
    /\ FreeH(proc) # {}
    /\ GoOn([proc EXCEPT ![Min(FreeH(proc))] =
               [NoProc EXCEPT !.kind = "probe", !.pc = "probe", !.conn = browser]],
            Min(FreeH(proc)), NoObs)
    /\ UNCHANGED <<browser, connecting, keepaliveInterval, timerActive, pool,
                   arrays, slots, pages, conns, mono, clockSrc, initialized, exhausted>>
    /\ rpc' = RpcAfter(rpc, ret')
    /\ UNCHANGED <<unusable, server, mgr>>

\* a keepAliveBrowser that only logs the failure of its probe
ProbeFailureLogged(self) ==
    /\ Return(proc, self, "probe", NoObs, "err", 0)
    /\ UNCHANGED <<browser, connecting, keepaliveInterval, timerActive, pool, arrays>>

\* keepAliveBrowser lines 85-87: the catch block calls handleBrowserDisconnection
ProbeFails(self) ==
    /\ HbdStart(self, proc)

\* the probe (newPage, goto, close of a throw-away page) settles (lines 78-88)
ProbeDone(self) ==
    /\ proc[self].pc = "probe"
    /\ LET c == proc[self].conn
       IN  \/ /\ ConnUp(c)
              /\ Return(proc, self, "probe", NoObs, "ok", 0)
              /\ UNCHANGED <<browser, connecting, keepaliveInterval, timerActive,
                             pool, arrays, disturb>>
           \/ /\ MayFail(ConnUp(c))
              /\ disturb' = FaultCount(ConnUp(c))
              /\ ProbeFails(self)
    /\ UNCHANGED <<slots, pages, conns, mono, clockSrc, initialized, exhausted>>
    /\ rpc' = RpcAfter(rpc, ret')
    /\ UNCHANGED <<unusable, server, mgr>>

\* the engine reports close (closes = TRUE), error or pageerror for session q
\* (createPage lines 42-55)
PageEvent(q, closes) ==
    /\ disturb < MaxDisturb
    /\ PageUp(q)
    /\ FindSlot(q) # 0
    /\ FreeH(proc) # {}
    /\ disturb' = disturb + 1
    /\ pages' = IF closes THEN [pages EXCEPT ![q].open = FALSE] ELSE pages
    /\ GoOn(HandlePageDisconnection(proc, q), Min(FreeH(proc)), NoObs)
    /\ UNCHANGED <<browser, connecting, keepaliveInterval, timerActive, pool,
                   arrays, slots, conns, mono, clockSrc, initialized, exhausted>>
    /\ rpc' = RpcAfter(rpc, ret')
    /\ UNCHANGED <<unusable, server, mgr>>

Next ==
    \/ \E self \in Tasks : Call(self)
    \/ \E self \in Tasks : CallInitialize(self)
    \/ \E self \in Tasks : AcquireIter(self)
    \/ \E self \in Procs : InitConnectDone(self)
    \/ \E self \in Procs : InitPageDone(self)
    \/ \E self \in Tasks, r \in {"ok", "err"} : ActionDone(self, r)
    \/ \E self \in Tasks : RelResetDone(self)
    \/ \E self \in Procs : RpCloseDone(self)
    \/ \E self \in Procs : RpCreateDone(self)
    \/ \E self \in Handlers : HbdCloseDone(self)
    \/ \E self \in Handlers : ProbeDone(self)
    \/ \E c \in 1..MaxConns : BrowserDisconnected(c)
    \/ KeepaliveTick
    \/ \E q \in 1..MaxPages, closes \in BOOLEAN : PageEvent(q, closes)

Spec == Init /\ [][Next]_vars

\* ---- a connected pool under a running clock: the callers, their waits in
\* acquirePage and their releases, in both revisions of acquirePage (startTime
\* read from performance.now() in src/src/browser.ts, from Date.now() in
\* part_000)
Sleepers == {t \in Tasks : proc[t].pc = "wp_sleep"}

\* 50 ms pass; a timer that is due fires before more time passes
Tick ==
    /\ mono < MaxMono
    /\ Sleepers # {} \/ mono < MaxCallTime
    /\ \A t \in Sleepers : mono < proc[t].wake
    /\ mono' = mono + POLL_MS
    /\ ret' = NoRet
    /\ UNCHANGED <<browser, connecting, keepaliveInterval, timerActive, pool,
                   arrays, slots, pages, conns, proc, obs, disturb, clockSrc,
                   initialized, exhausted>>
    /\ UNCHANGED <<unusable, rpc, server, mgr>>

\* withPage is called on the connected pool
CallEarly(self) == mono <= MaxCallTime /\ Call(self)

\* a connected pool at rest: built in full, or left empty by an initialize
\* whose first createPage failed once the connection was there (lines 117-154)
InitWait ==
    /\ browser = 1
    /\ connecting = FALSE
    /\ keepaliveInterval = TRUE
    /\ timerActive = 1
    /\ pool = 1
    /\ conns = <<TRUE>>
    /\ \/ /\ arrays = << [k \in 1..POOL_SIZE |-> k] >>
          /\ slots = [k \in 1..POOL_SIZE |-> [page |-> k, inUse |-> FALSE]]
          /\ pages = [k \in 1..POOL_SIZE |-> [conn |-> 1, open |-> TRUE]]
          /\ initialized = TRUE
       \/ /\ arrays = << <<>> >>
          /\ slots = <<>>
          /\ pages = <<>>
          /\ initialized = FALSE
    /\ proc = [p \in Procs |-> NoProc]
    /\ obs = [t \in Tasks |-> NoObs]
    /\ ret = NoRet
    /\ disturb = 0
    /\ mono = 0
    /\ clockSrc \in {"performance", "date"}
    /\ exhausted = FALSE
    /\ unusable = {}
    /\ rpc = [t \in Tasks |-> NoRpc]
    /\ server = NoServer
    /\ mgr = NoMgr

NextWait ==
    \/ \E self \in Tasks : CallEarly(self)
    \/ \E self \in Tasks : AcquireIter(self)
    \/ \E self \in Tasks, r \in {"ok", "err"} : ActionDone(self, r)
    \/ \E self \in Tasks : RelResetDone(self)
    \/ \E self \in Procs : RpCloseDone(self)
    \/ \E self \in Procs : RpCreateDone(self)
    \/ Tick

SpecWait == InitWait /\ [][NextWait]_vars

\* ---- the RPC server: Server.start (part_001) and RPCHandler.handleRequest
\* (src/src/rpc.ts over src/src/browser.ts; part_000 lines 1-73 over the pool
\* of part_000, whose acquirePage reads Date.now()) in front of the pool
Methods == {"generatePdf", "ping"}
RpcIds == {"7", "req-a"}
RpcParams == {"url", "url+opts"}

\* a handler that takes every method for generatePdf
AnyMethod(method) == TRUE

\* the switch of handleRequest (lines 27-28)
IsGeneratePdf(method) == method = "generatePdf"

\* new Error(`Unknown method: ${method}`) (line 48)
UnknownMethod(method) == [text |-> "Unknown method: ", arg |-> method]

\* BrowserPool.getInstance() of part_000 (lines 98-111): the constructor runs
\* as long as there is no instance, and asserts the endpoint
GetInstanceThrows == server.revision = "part_000" /\ ~server.endpoint

\* the requests that are not in flight
RpcIdle == {t \in 1..RpcCalls : rpc[t].state = "none"}

\* the requests whose attempt failed and whose next one async-retry has
\* scheduled (setTimeout of minTimeout = 0)
RpcWaiting == {t \in 1..RpcCalls : /\ rpc[t].state = "serving"
                                   /\ proc[t].kind \in {"none", "returned"}}

\* one attempt of retry's function, up to its first await (lines 30-33);
\* r: the requests, with the one of t
RpcAttempt(t, r) ==
    IF GetInstanceThrows
    THEN /\ rpc' = [r EXCEPT ![t] = Settled(@, "BROWSER_WS_ENDPOINT is not set", FALSE)]
         /\ ret' = NoRet
         /\ UNCHANGED <<browser, connecting, keepaliveInterval, timerActive, pool,
                        arrays, slots, pages, conns, proc, obs, disturb, mono,
                        clockSrc, initialized, exhausted, unusable, server, mgr>>
    ELSE /\ WithPageEntry(t)
         /\ rpc' = RpcAfter(r, ret')

\* Server.start (part_001 lines 22-34): the routes, then listen
ServerStart ==
    /\ ~server.listening
    /\ server' = [server EXCEPT !.listening = TRUE]
    /\ ret' = NoRet
    /\ UNCHANGED <<browser, connecting, keepaliveInterval, timerActive, pool,
                   arrays, slots, pages, conns, proc, obs, disturb, mono,
                   clockSrc, initialized, exhausted, unusable, rpc, mgr>>

\* POST /api/rpc -> handleRequest, up to its first await (lines 24-63)
RpcReceive(t, method, id, params) ==
    /\ server.listening
    /\ RpcIdle # {} /\ t = Min(RpcIdle)
    /\ LET r == [rpc EXCEPT ![t] = [NoRpc EXCEPT !.state = "serving",
                                                 !.method = method, !.id = id,
                                                 !.params = params]]
       IN  IF IsGeneratePdf(method)
           THEN RpcAttempt(t, r)
           ELSE /\ rpc' = [r EXCEPT ![t].state = "done",
                                   ![t].responses =
                                       <<ErrorResponse(id, UnknownMethod(method))>>]
                /\ ret' = NoRet
                /\ UNCHANGED <<browser, connecting, keepaliveInterval, timerActive,
                               pool, arrays, slots, pages, conns, proc, obs,
                               disturb, mono, clockSrc, initialized, exhausted,
                               unusable, server, mgr>>

\* the timer of async-retry fires: the next attempt
RpcRetryTimer(t) ==
    /\ t \in RpcWaiting
    /\ RpcAttempt(t, rpc)

InitRpc ==
    /\ browser = 0
    /\ connecting = FALSE
    /\ keepaliveInterval = FALSE
    /\ timerActive = 0
    /\ pool = 1
    /\ arrays = << <<>> >>
    /\ slots = <<>>
    /\ pages = <<>>
    /\ conns = <<>>
    /\ proc = [p \in Procs |-> NoProc]
    /\ obs = [t \in Tasks |-> NoObs]
    /\ ret = NoRet
    /\ disturb = 0
    /\ mono = 0
    /\ initialized = FALSE
    /\ exhausted = FALSE
    /\ unusable = {}
    /\ rpc = [t \in Tasks |-> NoRpc]
    /\ server \in {[NoServer EXCEPT !.revision = v, !.endpoint = e] :
                     v \in {"src", "part_000"}, e \in BOOLEAN}
    /\ server.revision = "src" => server.endpoint
    /\ clockSrc = IF server.revision = "src" THEN "performance" ELSE "date"
    /\ mgr = NoMgr

NextRpc ==
    \/ ServerStart
    \/ \E t \in Tasks, method \in Methods, id \in RpcIds, params \in RpcParams :
           RpcReceive(t, method, id, params)
    \/ \E t \in Tasks : RpcRetryTimer(t)
    \/ \E self \in Tasks : AcquireIter(self)
    \/ \E self \in Procs : InitConnectDone(self)
    \/ \E self \in Procs : InitPageDone(self)
    \/ \E self \in Tasks, r \in {"ok", "err"} : ActionDone(self, r)
    \/ \E self \in Tasks : RelResetDone(self)
    \/ \E self \in Procs : RpCloseDone(self)
    \/ \E self \in Procs : RpCreateDone(self)
    \/ Tick

SpecRpc == InitRpc /\ [][NextRpc]_vars

\* ---- the BrowserManager of part_003: a page pool under a Mutex of
\* async-mutex.  An action is the settling of the await a caller is at and the
\* code up to its next await.
LockedPcs == {"init_locked", "get_locked", "rel_locked", "disc_locked"}

\* where a caller queued for the mutex goes on once it is handed the lock
LockedOf(pc) ==
    CASE pc = "init_wait" -> "init_locked"
      [] pc = "get_wait" -> "get_locked"
      [] pc = "rel_wait" -> "rel_locked"
      [] pc = "disc_wait" -> "disc_locked"

\* mutex.acquire() / the entry of runExclusive by caller self (lines 31, 51,
\* 68, 100): the lock if it is free, else a place in the queue
MutexAcquire(m, self, locked, wait) ==
    IF m.holder = 0
    THEN [m EXCEPT !.holder = self, !.task[self].pc = locked]
    ELSE [m EXCEPT !.queue = Append(@, self), !.task[self].pc = wait]

\* mutex.release() / the exit of runExclusive (line 46): the lock goes to the
\* first caller queued
MutexRelease(m) ==
    IF m.queue = <<>>
    THEN [m EXCEPT !.holder = 0]
    ELSE [m EXCEPT !.holder = Head(m.queue), !.queue = Tail(m.queue),
                   !.task[Head(m.queue)].pc = LockedOf(m.task[Head(m.queue)].pc)]

\* this.pages.find(p => !p.inUse) (line 53); 0: none
MgrFindFree(m) ==
    IF \E k \in 1..Len(m.pages) : ~m.pages[k].inUse
    THEN Min({k \in 1..Len(m.pages) : ~m.pages[k].inUse})
    ELSE 0

\* this.pages.find(p => p.page === page) (line 69); 0: none
MgrFindPage(m, page) ==
    IF \E k \in 1..Len(m.pages) : m.pages[k].page = page
    THEN Min({k \in 1..Len(m.pages) : m.pages[k].page = page})
    ELSE 0

\* capturePDF settles for caller self
MgrSettle(m, self, res) == [m EXCEPT !.task[self] = [NoCaller EXCEPT !.pc = "done", !.res = res]]

\* the rest of the model stands still
PoolUntouched ==
    UNCHANGED <<browser, connecting, keepaliveInterval, timerActive, pool, arrays,
                slots, pages, conns, proc, obs, ret, disturb, mono, clockSrc,
                initialized, exhausted, unusable, rpc, server>>

MgrIdle == {t \in Tasks : mgr.task[t].pc = "idle"}

\* capturePDF is called (lines 77-80, 28-31, 50-51), up to the mutex
MCapture(self) ==
    /\ MgrIdle # {} /\ self = Min(MgrIdle)
    /\ mgr' = IF mgr.browser = 0
              THEN MutexAcquire(mgr, self, "init_locked", "init_wait")
              ELSE MutexAcquire(mgr, self, "get_locked", "get_wait")
    /\ PoolUntouched

\* disconnect is called (lines 99-100)
MDisconnect(self) ==
    /\ MgrIdle # {} /\ self = Min(MgrIdle)
    /\ mgr.created > 0
    /\ mgr' = MutexAcquire(mgr, self, "disc_locked", "disc_wait")
    /\ PoolUntouched

\* a caller that has the lock enters its critical section (lines 32-34,
\* 52-61, 69-71, 101-102)
MEnter(self) ==
    /\ mgr.holder = self
    /\ mgr.task[self].pc \in LockedPcs
    /\ LET pc == mgr.task[self].pc
           k == MgrFindFree(mgr)
           e == MgrFindPage(mgr, mgr.task[self].page)
       IN  mgr' =
             CASE pc = "init_locked" ->
                    IF mgr.browser = 0
                    THEN [mgr EXCEPT !.task[self].pc = "init_connect"]
                    ELSE MutexAcquire(MutexRelease(mgr), self, "get_locked", "get_wait")
               [] pc = "get_locked" ->
                    IF k # 0
                    THEN MutexRelease([mgr EXCEPT !.pages[k].inUse = TRUE,
                                                  !.task[self].pc = "work",
                                                  !.task[self].page = mgr.pages[k].page])
                    ELSE [mgr EXCEPT !.task[self].pc = "get_create"]
               [] pc = "rel_locked" ->
                    IF e # 0
                    THEN [mgr EXCEPT !.task[self].pc = "rel_reset"]
                    ELSE MutexRelease(MgrSettle(mgr, self, mgr.task[self].res))
               [] pc = "disc_locked" ->
                    IF mgr.browser # 0
                    THEN [mgr EXCEPT !.task[self].pc = "disc_close"]
                    ELSE MutexRelease(MgrSettle(mgr, self, "ok"))
    /\ PoolUntouched

\* puppeteer.connect settles (lines 34-47)
MConnectDone(self, ok) ==
    /\ mgr.task[self].pc = "init_connect"
    /\ mgr' = IF ~ok
              THEN MutexRelease(MgrSettle(mgr, self, "err"))
              ELSE IF poolSize > 0
              THEN [mgr EXCEPT !.browser = 1, !.task[self].pc = "init_page",
                               !.task[self].i = 0]
              ELSE MutexAcquire(MutexRelease([mgr EXCEPT !.browser = 1]),
                                self, "get_locked", "get_wait")
    /\ PoolUntouched

\* a createPage of initialize settles (lines 39-47)
MInitPageDone(self, ok) ==
    /\ mgr.task[self].pc = "init_page"
    /\ mgr' = IF ~ok
              THEN MutexRelease(MgrSettle(mgr, self, "err"))
              ELSE LET m == [mgr EXCEPT !.created = @ + 1,
                                        !.pages = Append(@, [page |-> mgr.created + 1,
                                                             inUse |-> FALSE]),
                                        !.task[self].i = @ + 1]
                   IN  IF m.task[self].i < poolSize
                       THEN m
                       ELSE MutexAcquire(MutexRelease(m), self, "get_locked", "get_wait")
    /\ PoolUntouched

\* the createPage of getAvailablePage settles (lines 61-64)
MCreateDone(self, ok) ==
    /\ mgr.task[self].pc = "get_create"
    /\ mgr' = IF ~ok
              THEN MutexRelease(MgrSettle(mgr, self, "err"))
              ELSE MutexRelease([mgr EXCEPT !.created = @ + 1,
                                            !.pages = Append(@, [page |-> mgr.created + 1,
                                                                 inUse |-> TRUE]),
                                            !.task[self].pc = "work",
                                            !.task[self].page = mgr.created + 1])
    /\ PoolUntouched

\* page.goto and page.pdf have settled with res; the finally block calls
\* releasePage (lines 82-95, 67-68)
MWorkDone(self, res) ==
    /\ mgr.task[self].pc = "work"
    /\ mgr' = MutexAcquire([mgr EXCEPT !.task[self].res = res], self,
                           "rel_locked", "rel_wait")
    /\ PoolUntouched

\* page.goto('about:blank') settles (lines 71-74, 95)
MResetDone(self, ok) ==
    /\ mgr.task[self].pc = "rel_reset"
    /\ LET e == MgrFindPage(mgr, mgr.task[self].page)
       IN  mgr' = IF ~ok
                  THEN MutexRelease(MgrSettle(mgr, self, "err"))
                  ELSE MutexRelease(MgrSettle(
                           IF e # 0 THEN [mgr EXCEPT !.pages[e].inUse = FALSE] ELSE mgr,
                           self, mgr.task[self].res))
    /\ PoolUntouched

\* the closes of disconnect settle (lines 102-108)
MDisconnectDone(self, ok) ==
    /\ mgr.task[self].pc = "disc_close"
    /\ mgr' = IF ~ok
              THEN MutexRelease(MgrSettle(mgr, self, "err"))
              ELSE MutexRelease(MgrSettle([mgr EXCEPT !.browser = 0, !.pages = <<>>],
                                          self, "ok"))
    /\ PoolUntouched

NextMutex ==
    \/ \E self \in Tasks : MCapture(self)
    \/ \E self \in Tasks : MDisconnect(self)
    \/ \E self \in Tasks : MEnter(self)
    \/ \E self \in Tasks, ok \in BOOLEAN : MConnectDone(self, ok)
    \/ \E self \in Tasks, ok \in BOOLEAN : MInitPageDone(self, ok)
    \/ \E self \in Tasks, ok \in BOOLEAN : MCreateDone(self, ok)
    \/ \E self \in Tasks, res \in {"ok", "err"} : MWorkDone(self, res)
    \/ \E self \in Tasks, ok \in BOOLEAN : MResetDone(self, ok)
    \/ \E self \in Tasks, ok \in BOOLEAN : MDisconnectDone(self, ok)

SpecMutex == Init /\ [][NextMutex]_vars

\* ---- the retrying revision of the supervisor (src/unnamed/part_000):
\* createPage and initialize call handleBrowserDisconnection from their catch
\* blocks, and handleBrowserDisconnection calls initialize through async-retry.
\* proc[p].stack holds the callers that await the call in progress, innermost
\* last:  retry (handleBrowserDisconnection awaits attempt n of initialize),
\* init_catch (initialize awaits handleBrowserDisconnection, line 262),
\* create_init / create_rp (createPage, called by initialize / by replacePage,
\* awaits handleBrowserDisconnection, line 160).
Frame(f, n) == [f |-> f, n |-> n]
Top(stk) == stk[Len(stk)]
Pop(stk) == SubSeq(stk, 1, Len(stk) - 1)

\* The engine accepts no further connection.  From then on a
\* handleBrowserDisconnection or an initialize that is entered never returns
\* (every connect fails and the catch of initialize enters the next
\* handleBrowserDisconnection), so the callers awaiting it are no longer recorded.
EngineGone == Len(conns) = MaxConns
Push(stk, fr) == IF EngineGone THEN stk ELSE Append(stk, fr)

\* createPage line 159: whether the message of the error names a closed target
\* or session; it can when the connection the call was made on is down
ClosedMessage(c) == IF ConnUp(c) THEN {FALSE} ELSE BOOLEAN

\* connection attempts made by an activity: counted up to MaxAttempts, from
\* where the count wraps to RETRIES + 2, the first value over the limit
CountAttempt(n) == IF n < MaxAttempts THEN n + 1 ELSE RETRIES + 2

\* initialize (InitSettles) or handleBrowserDisconnection (HbdSettles) returns
\* ("ok") or throws ("err") to the caller on top of stk; cn is this.connecting.
\* The result says where the activity awaits next:
\*   bottom    the outermost call of the activity has settled with `out`
\*   backoff   async-retry schedules the next attempt (a timer of 0 ms)
\*   hbd       handleBrowserDisconnection is entered
\*   rp_throw  createPage throws out of replacePage (lines 162, 357)
RECURSIVE InitSettles(_, _, _), HbdSettles(_, _, _)
\* part_000 lines 292-314: async-retry around initialize
InitSettles(stk, out, cn) ==
    IF stk = <<>> \/ Top(stk).f # "retry"
    THEN [next |-> "bottom", stk |-> stk, out |-> out, cn |-> cn]
    ELSE IF out = "ok"
    THEN HbdSettles(Pop(stk), "ok", cn)
    ELSE IF Top(stk).n < RETRIES + 1
    THEN [next |-> "backoff", stk |-> Append(Pop(stk), Frame("retry", Top(stk).n + 1)),
          out |-> out, cn |-> cn]
    ELSE HbdSettles(Pop(stk), "err", cn)
\* part_000 lines 160-162 (createPage), 262-265 (initialize)
HbdSettles(stk, out, cn) ==
    IF stk = <<>> \/ Top(stk).f = "retry"
    THEN [next |-> "bottom", stk |-> stk, out |-> out, cn |-> cn]
    ELSE IF Top(stk).f = "init_catch"
    THEN InitSettles(Pop(stk), "err", FALSE)
    ELSE IF Top(stk).f = "create_init"
    THEN [next |-> "hbd", stk |-> Push(Pop(stk), Frame("init_catch", 0)),
          out |-> "err", cn |-> cn]
    ELSE [next |-> "rp_throw", stk |-> Pop(stk), out |-> "err", cn |-> cn]

\* handleBrowserDisconnection, the loop over this.pool from its k-th element
\* and what follows it (part_000 lines 279-294): the next close is awaited, or
\* the state is reset and async-retry makes the first attempt of initialize,
\* which passes its guard and awaits the connection.  ar is the heap of arrays, sl of slots;
\* an empty this.pool that no loop is walking is reused for the new empty one.
\* Sets browser', connecting', pool', arrays', proc', obs' and ret'.
RHbdIter(self, pr, stk, cn, ar, sl, a, k) ==
    IF k <= Len(ar[a])
    THEN /\ GoOn([pr EXCEPT ![self].pc = "r_close", ![self].arr = a,
                            ![self].idx = k, ![self].stack = stk,
                            ![self].page = sl[ar[a][k]].page],
                 self, ObsOf(self))
         /\ arrays' = ar
         /\ connecting' = cn
         /\ UNCHANGED <<browser, pool>>
    ELSE /\ browser' = 0
         /\ IF ar[pool] = <<>>
            THEN arrays' = ar /\ pool' = pool
            ELSE arrays' = Append(ar, <<>>) /\ pool' = Len(ar) + 1
         /\ connecting' = TRUE
         /\ GoOn([pr EXCEPT ![self].pc = "r_connect", ![self].arr = 0,
                            ![self].idx = 0, ![self].page = 0,
                            ![self].stack = Push(stk, Frame("retry", 1)),
                            ![self].attempts = CountAttempt(@)],
                 self, ObsOf(self))

\* handleBrowserDisconnection from its first line (part_000 lines 269-279)
REnterHbd(self, pr, stk, cn, ar, sl) ==
    /\ keepaliveInterval' = FALSE
    /\ timerActive' = timerActive - (IF keepaliveInterval THEN 1 ELSE 0)
    /\ RHbdIter(self, pr, stk, cn, ar, sl, pool, 1)

\* The activity goes on where InitSettles or HbdSettles says (R).  Sets
\* browser', connecting', pool', arrays', keepaliveInterval', timerActive',
\* proc', obs' and ret'.
Resume(self, pr, R, ar, sl) ==
    IF R.next = "hbd"
    THEN REnterHbd(self, pr, R.stk, R.cn, ar, sl)
    ELSE /\ connecting' = R.cn
         /\ arrays' = ar
         /\ UNCHANGED <<browser, pool, keepaliveInterval, timerActive>>
         /\ IF R.next = "backoff"
            THEN GoOn([pr EXCEPT ![self].pc = "r_backoff", ![self].stack = R.stk],
                      self, ObsOf(self))
            ELSE IF R.next = "rp_throw"
            THEN RpThrows(pr, self)
            ELSE IF pr[self].kind = "withPage" /\ R.out = "ok"
            THEN GoOn([pr EXCEPT ![self] =
                         [NoProc EXCEPT !.kind = "withPage", !.pc = "wp_acquire"]],
                      self, ObsOf(self))
            ELSE Return(pr, self, pr[self].kind, ObsOf(self),
                        IF R.out = "ok" THEN "ok" ELSE "initerr", 0)

\* withPage is called (part_000 lines 382-390, 210-221)
RCall(self) ==
    /\ IdleTasks # {} /\ self = Min(IdleTasks)
    /\ self <= RetryCalls
    /\ mono <= MaxCallTime
    /\ IF browser = 0
       THEN /\ IF InitializeIsNoop
               THEN /\ GoOn([proc EXCEPT ![self] =
                               [NoProc EXCEPT !.kind = "withPage", !.pc = "wp_acquire"]],
                            self, NoObs)
                    /\ connecting' = connecting
               ELSE /\ GoOn([proc EXCEPT ![self] =
                               [NoProc EXCEPT !.kind = "withPage", !.pc = "r_connect",
                                              !.attempts = 1]],
                            self, NoObs)
                    /\ connecting' = TRUE
            /\ UNCHANGED slots
       ELSE /\ AcquirePage(self, TRUE)
            /\ UNCHANGED connecting
    /\ UNCHANGED <<browser, keepaliveInterval, timerActive, pool, arrays, pages,
                   conns, disturb, mono, clockSrc, initialized, exhausted>>
    /\ rpc' = RpcAfter(rpc, ret')
    /\ UNCHANGED <<unusable, server, mgr>>

\* puppeteer.connect settles (part_000 lines 221-245, 260-262)
RConnectDone(self) ==
    /\ proc[self].pc = "r_connect"
    /\ \/ /\ Len(conns) < MaxConns
          /\ conns' = Append(conns, TRUE)
          /\ browser' = Len(conns) + 1
          /\ keepaliveInterval' = TRUE
          /\ timerActive' = timerActive + 1 - (IF keepaliveInterval THEN 1 ELSE 0)
          /\ GoOn([proc EXCEPT ![self].pc = "r_newpage", ![self].i = 0,
                               ![self].conn = Len(conns) + 1],
                  self, ObsOf(self))
          /\ UNCHANGED <<connecting, disturb, pool, arrays>>
       \/ /\ MayFail(Len(conns) < MaxConns)
          /\ disturb' = FaultCount(Len(conns) < MaxConns)
          /\ conns' = conns
          /\ REnterHbd(self, proc, Push(proc[self].stack, Frame("init_catch", 0)),
                       connecting, arrays, slots)
    /\ UNCHANGED <<slots, pages, mono, clockSrc, initialized, exhausted>>
    /\ rpc' = RpcAfter(rpc, ret')
    /\ UNCHANGED <<unusable, server, mgr>>

\* browser.newPage settles in createPage, called by the loop of initialize
\* (part_000 lines 135-163, 242-266)
RInitPageDone(self) ==
    /\ proc[self].pc = "r_newpage"
    /\ LET c == proc[self].conn
           p == NewPage
           s == Len(slots) + 1
           stk == proc[self].stack
           pushed == [arrays EXCEPT ![pool] = Append(@, s)]
       IN  \/ /\ ConnUp(c) /\ Len(pages) < MaxPages
              /\ pages' = Append(pages, [conn |-> c, open |-> TRUE])
              /\ slots' = Append(slots, [page |-> p, inUse |-> FALSE])
              /\ disturb' = disturb
              /\ IF proc[self].i + 1 < POOL_SIZE
                 THEN IF browser = 0
                      THEN REnterHbd(self, proc, Push(stk, Frame("init_catch", 0)),
                                     connecting, pushed, slots')
                      ELSE /\ GoOn([proc EXCEPT ![self].i = @ + 1,
                                                ![self].conn = browser],
                                   self, ObsOf(self))
                           /\ arrays' = pushed
                           /\ UNCHANGED <<browser, connecting, pool,
                                          keepaliveInterval, timerActive>>
                 ELSE Resume(self, proc, InitSettles(stk, "ok", FALSE), pushed, slots')
              /\ initialized' = (initialized \/ proc[self].i + 1 >= POOL_SIZE)
           \/ /\ MayFail(ConnUp(c) /\ Len(pages) < MaxPages)
              /\ disturb' = FaultCount(ConnUp(c) /\ Len(pages) < MaxPages)
              /\ \E closed \in ClosedMessage(c) :
                    REnterHbd(self, proc,
                              Push(stk, Frame(IF closed THEN "create_init"
                                              ELSE "init_catch", 0)),
                              connecting, arrays, slots)
              /\ UNCHANGED <<pages, slots, initialized>>
    /\ UNCHANGED <<conns, mono, clockSrc, exhausted>>
    /\ rpc' = RpcAfter(rpc, ret')
    /\ UNCHANGED <<unusable, server, mgr>>

\* browser.newPage settles in createPage, called by replacePage (part_000
\* lines 135-163, 351-358)
RReplaceCreateDone(self) ==
    /\ proc[self].pc = "rp_create"
    /\ LET c == proc[self].conn
           s == proc[self].slot
       IN  \/ /\ ConnUp(c) /\ Len(pages) < MaxPages
              /\ pages' = Append(pages, [conn |-> c, open |-> TRUE])
              /\ slots' = [slots EXCEPT ![s] =
                             [page |-> NewPage, inUse |-> FALSE]]
              /\ RpReturns(proc, self)
              /\ unusable' = unusable \ {s}
              /\ UNCHANGED <<disturb, browser, connecting, pool, arrays,
                             keepaliveInterval, timerActive>>
           \/ /\ MayFail(ConnUp(c) /\ Len(pages) < MaxPages)
              /\ disturb' = FaultCount(ConnUp(c) /\ Len(pages) < MaxPages)
              /\ UNCHANGED <<pages, slots>>
              /\ unusable' = unusable \cup {s}
              /\ \E closed \in ClosedMessage(c) :
                    IF closed
                    THEN REnterHbd(self, proc,
                                   Push(proc[self].stack, Frame("create_rp", 0)),
                                   connecting, arrays, slots)
                    ELSE /\ RpThrows(proc, self)
                         /\ UNCHANGED <<browser, connecting, pool, arrays,
                                        keepaliveInterval, timerActive>>
    /\ UNCHANGED <<conns, mono, clockSrc, initialized, exhausted>>
    /\ rpc' = RpcAfter(rpc, ret')
    /\ UNCHANGED <<server, mgr>>

\* handleBrowserDisconnection: a close of the loop settles (part_000 line 281)
RHbdCloseDone(self) ==
    /\ proc[self].pc = "r_close"
    /\ LET q == proc[self].page
           a == proc[self].arr
           k == proc[self].idx
           stk == proc[self].stack
       IN  \/ /\ PageUp(q) /\ CanPageDisc(proc, q)
              /\ pages' = [pages EXCEPT ![q].open = FALSE]
              /\ disturb' = disturb
              /\ RHbdIter(self, HandlePageDisconnection(proc, q), stk, connecting,
                          arrays, slots, a, k + 1)
           \/ /\ MayFail(PageUp(q))
              /\ disturb' = FaultCount(PageUp(q))
              /\ pages' = pages
              /\ RHbdIter(self, proc, stk, connecting, arrays, slots, a, k + 1)
    /\ UNCHANGED <<keepaliveInterval, timerActive, slots, conns, mono, clockSrc,
                   initialized, exhausted>>
    /\ rpc' = RpcAfter(rpc, ret')
    /\ UNCHANGED <<unusable, server, mgr>>

\* the 0 ms timer of async-retry fires: the next attempt of initialize
\* (part_000 lines 292-301, 210-221)
RRetryTimer(self) ==
    /\ proc[self].pc = "r_backoff"
    /\ IF InitializeIsNoop
       THEN Resume(self, proc, InitSettles(proc[self].stack, "ok", connecting), arrays, slots)
       ELSE /\ connecting' = TRUE
            /\ GoOn([proc EXCEPT ![self].pc = "r_connect",
                                 ![self].attempts = CountAttempt(@)],
                    self, ObsOf(self))
            /\ UNCHANGED <<browser, pool, arrays, keepaliveInterval, timerActive>>
    /\ UNCHANGED <<slots, pages, conns, disturb, mono, clockSrc, initialized,
                   exhausted>>
    /\ rpc' = RpcAfter(rpc, ret')
    /\ UNCHANGED <<unusable, server, mgr>>

\* the remote engine drops connection c: browser.on('disconnected')
\* (part_000 lines 227-230)
RBrowserDisconnected(c) ==
    /\ ConnUp(c)
    /\ FreeH(proc) # {}
    /\ disturb < MaxDisturb
    /\ disturb' = disturb + 1
    /\ conns' = [conns EXCEPT ![c] = FALSE]
    /\ REnterHbd(Min(FreeH(proc)),
                 [proc EXCEPT ![Min(FreeH(proc))] = [NoProc EXCEPT !.kind = "hbd"]],
                 <<>>, connecting, arrays, slots)
    /\ UNCHANGED <<slots, pages, mono, clockSrc, initialized, exhausted>>
    /\ rpc' = RpcAfter(rpc, ret')
    /\ UNCHANGED <<unusable, server, mgr>>

\* the callers asleep in acquirePage are woken late: more than MAX_WAIT_MS
\* pass before the event loop runs their timers
RClock ==
    /\ Sleepers # {}
    /\ \A t \in Sleepers : mono < proc[t].wake
    /\ mono < RetryCalls * (MAX_WAIT_MS + POLL_MS)
    /\ mono' = mono + MAX_WAIT_MS + POLL_MS
    /\ ret' = NoRet
    /\ UNCHANGED <<browser, connecting, keepaliveInterval, timerActive, pool,
                   arrays, slots, pages, conns, proc, obs, disturb, clockSrc,
                   initialized, exhausted>>
    /\ UNCHANGED <<unusable, rpc, server, mgr>>

\* part_000 reads startTime from Date.now() (line 318)
InitRetry ==
    /\ browser = 0
    /\ connecting = FALSE
    /\ keepaliveInterval = FALSE
    /\ timerActive = 0
    /\ pool = 1
    /\ arrays = << <<>> >>
    /\ slots = <<>>
    /\ pages = <<>>
    /\ conns = <<>>
    /\ proc = [p \in Procs |-> NoProc]
    /\ obs = [t \in Tasks |-> NoObs]
    /\ ret = NoRet
    /\ disturb = 0
    /\ mono = 0
    /\ clockSrc = "date"
    /\ initialized = FALSE
    /\ exhausted = FALSE
    /\ unusable = {}
    /\ rpc = [t \in Tasks |-> NoRpc]
    /\ server = NoServer
    /\ mgr = NoMgr

\* one step of activity self
RStep(self) ==
    \/ RConnectDone(self)
    \/ RInitPageDone(self)
    \/ RReplaceCreateDone(self)
    \/ RpCloseDone(self)
    \/ RHbdCloseDone(self)
    \/ RRetryTimer(self)
    \/ self \in Tasks /\ AcquireIter(self)
    \/ self \in Tasks /\ \E r \in {"ok", "err"} : ActionDone(self, r)
    \/ self \in Tasks /\ RelResetDone(self)

NextRetry ==
    \/ \E self \in Tasks : RCall(self)
    \/ \E self \in Procs : RConnectDone(self)
    \/ \E self \in Procs : RInitPageDone(self)
    \/ \E self \in Procs : RReplaceCreateDone(self)
    \/ \E self \in Procs : RpCloseDone(self)
    \/ \E self \in Procs : RHbdCloseDone(self)
    \/ \E self \in Procs : RRetryTimer(self)
    \/ \E self \in Tasks : AcquireIter(self)
    \/ \E self \in Tasks, r \in {"ok", "err"} : ActionDone(self, r)
    \/ \E self \in Tasks : RelResetDone(self)
    \/ \E c \in 1..MaxConns : RBrowserDisconnected(c)
    \/ \E q \in 1..MaxPages, closes \in BOOLEAN : PageEvent(q, closes)
    \/ RClock

\* every remote call and every timer eventually settles
SpecRetry ==
    /\ InitRetry
    /\ [][NextRetry]_vars
    /\ \A self \in Procs : WF_vars(RStep(self))
    /\ WF_vars(RClock)

\* ---- what the callers in flight hold
\* the callers whose action is running on the session they acquired
InAction == {t \in Tasks : proc[t].pc = "wp_action"}
\* the callers between the return of their acquirePage and of their withPage
Holders == {t \in Tasks : obs[t].gotSlot # 0}
InUseSlots == {s \in PoolSlots : slots[s].inUse}

\* C1: no two callers in flight hold the same slot at the same time: a slot
\* handed out by acquirePage is not handed out again before its holder has
\* released it.
C1_NoSharedSlot ==
    \A t1, t2 \in Holders : t1 # t2 => obs[t1].gotSlot # obs[t2].gotSlot

\* C1, where it happens: two callers are running their actions
C1_TwoInAction == Cardinality(InAction) >= 2

\* C2: in every reachable state the number of slots of the pool with inUse set
\* is between 0 and POOL_SIZE.
C2_InUseWithinN == Cardinality(InUseSlots) \in 0..POOL_SIZE

\* C2, where it happens: every slot of a full pool is in use
C2_AllInUse == Len(PoolArr) = POOL_SIZE /\ Cardinality(InUseSlots) = POOL_SIZE

\* C3: once initialize has completed successfully, the pool holds exactly
\* POOL_SIZE slots in every later state.
C3_ExactlyN == initialized => Len(PoolArr) = POOL_SIZE

\* C3, the half "never more than POOL_SIZE"
C3_NeverMoreThanN == initialized => Len(PoolArr) <= POOL_SIZE

\* C3, where it happens: a reconnection has rebuilt the pool
C3_Rebuilt == initialized /\ pool > 1 /\ Len(PoolArr) >= POOL_SIZE

\* the last step returned from a withPage call whose action had run
ActionRan == ret.op = "withPage" /\ ret.result # "none"

\* C4: a withPage call whose action ran, returning or throwing, performed
\* exactly one acquirePage and exactly one releasePage; no release precedes
\* the end of the action, and the release is given the handle acquired.
C4_OneAcquireOneRelease ==
    /\ \A t \in InAction : obs[t].acq = 1 /\ obs[t].rel = 0
    /\ \A t \in Tasks : obs[t].result # "none" =>
            obs[t].acq = 1 /\ obs[t].rel = 1 /\ obs[t].relSame
    /\ ActionRan => ret.acq = 1 /\ ret.rel = 1 /\ ret.relSame

\* C4, where it happens: a call whose action threw has returned
C4_ThrowingCallReturned == ActionRan /\ ret.result = "err"

\* C5: for every withPage call that has terminated, the slot it acquired, if
\* still in the pool, is no longer in use on its behalf; when no withPage call
\* is in flight, no slot of the pool is in use.
C5_NoLeak ==
    /\ (ret.op = "withPage" /\ ret.slot \in PoolSlots /\ slots[ret.slot].inUse) =>
            \E t \in Holders : obs[t].gotSlot = ret.slot
    /\ (\A t \in Tasks : proc[t].kind # "withPage") => InUseSlots = {}

\* C6: after releasePage has terminated for a handle owned by a slot of the
\* pool, that slot is free and holds one usable session.
C6_ReleasedSlotFree ==
    (ret.op = "withPage" /\ ret.rel = 1 /\ ret.relSlot # 0) =>
        ~slots[ret.relSlot].inUse /\ PageUp(slots[ret.relSlot].page)

\* C7: withPage hands its caller the outcome of the action, the value it
\* returned or the error it threw, on every exit path.
C7_OutcomeOfAction == ActionRan => ret.outcome = ret.result

\* C8: with all POOL_SIZE slots held, acquirePage does not fail with the
\* timeout error before MAX_WAIT_MS have passed since the call started.
C8_NoEarlyTimeout ==
    (ret.outcome = "timeout" /\ Len(PoolArr) = POOL_SIZE
        /\ Cardinality(InUseSlots) = POOL_SIZE) => ret.elapsed >= MAX_WAIT_MS

InitializeCalledBy(t) ==
    /\ proc[t].kind = "none"
    /\ \/ proc'[t].kind = "initialize"
       \/ ret'.task = t /\ ret'.op = "initialize"
       \/ proc'[t].kind = "withPage" /\ browser = 0

\* C10: a call of initialize made while connecting is set or this.browser is
\* not null opens no connection, creates no session, starts no timer and
\* changes neither the pool nor the connection state.
C10_InitializeNoop ==
    [][\A t \in Tasks :
          (InitializeCalledBy(t) /\ (browser # 0 \/ connecting)) =>
              /\ proc'[t].pc # "init_connect"
              /\ UNCHANGED <<browser, connecting, keepaliveInterval, timerActive,
                             pool, arrays, slots, pages, conns>>]_vars

\* C10, where it happens: a call of initialize has returned at once
C10_ReturnedAtOnce == ret.op = "initialize" /\ ret.outcome = "noop"

\* the executions of initialize past its guard that are in progress
InitRuns == {p \in Procs : proc[p].pc \in {"init_connect", "init_page"}}

\* C11: at most one execution of initialize past its guard is in progress at
\* any time.
C11_OneConnectionAttempt == Cardinality(InitRuns) <= 1

\* C11, where it happens: a reconnection is executing initialize
C11_ReconnectInProgress == \E h \in Handlers : h \in InitRuns /\ proc[h].kind = "hbd"

\* C12: when initialize has failed, no connection object is retained, the pool
\* is empty, connecting is false and no health-check timer is left running.
C12_FailedInitDisconnected ==
    (ret.outcome = "initerr" /\ InitRuns = {}) =>
        /\ browser = 0
        /\ PoolArr = <<>>
        /\ ~connecting
        /\ ~keepaliveInterval /\ timerActive = 0

\* the probes of the health check that are in flight, each with the
\* reconnection it may have started
Probes == {h \in Handlers : proc[h].kind = "probe"}

\* C13: the health check never has two probes in flight.
C13_OneProbe == Cardinality(Probes) <= 1

\* C13, where it happens: the interval fired and a probe is in flight
C13_ProbeInFlight == Probes # {}

\* the step in which the handleBrowserDisconnection run of h calls initialize
HbdStartsInit(h) ==
    /\ proc'[h].kind = "hbd" /\ proc'[h].pc = "init_connect"
    /\ proc[h].pc # "init_connect"

\* C14: handleBrowserDisconnection attempts initialize only after it has closed
\* (best effort) every session of the pool, emptied the pool and reset the
\* state: the pool it empties holds no session the run has not closed.
C14_TeardownOrder ==
    [][\A h \in Handlers : HbdStartsInit(h) =>
          /\ \/ PoolArr = <<>>
             \/ /\ proc[h].pc = "hbd_close"
                /\ proc[h].arr = pool
                /\ proc[h].idx >= Len(PoolArr)
          /\ browser' = 0 /\ arrays'[pool'] = <<>>]_vars

\* C14, where it happens: a run has closed the sessions of a pool and reset it
C14_PoolTornDown ==
    \E h \in Handlers : proc[h].kind = "hbd" /\ proc[h].pc = "init_connect"
                           /\ pool > 1 /\ arrays[pool - 1] # <<>>

\* the handleBrowserDisconnection runs in flight: from the start of the
\* teardown to the end of the initialize that rebuilds the pool
Rebuilding == {h \in Handlers : proc[h].kind = "hbd"}

\* the step in which acquirePage returns a handle to t
AcquireReturns(t) == obs[t].gotSlot = 0 /\ obs'[t].gotSlot # 0

\* C18: no acquirePage call returns a handle between the start of a teardown
\* and the end of the rebuild of the pool that follows it.
C18_NoHandleWhileRebuilding ==
    [][\A t \in Tasks : AcquireReturns(t) => Rebuilding = {}]_vars

\* C18, where it happens: a teardown is closing the sessions of the pool
C18_TearingDown == \E h \in Rebuilding : proc[h].pc = "hbd_close"

\* C16: once a handleBrowserDisconnection has given up reconnecting, no
\* further connection attempt is started, by the health check or by a request.
C16_NoAttemptAfterExhaustion == [][exhausted => InitRuns' \subseteq InitRuns]_vars

\* C16, where it happens: a reconnection has given up
C16_GaveUp == exhausted

InTeardown == {p \in Procs : proc[p].pc \in {"r_close", "r_connect", "r_newpage",
                                              "r_backoff"}
                             /\ proc[p].kind # "withPage"}
Reconnecting == {h \in Handlers : proc[h].kind = "hbd"}

\* C15: for one detected connection loss the reconnection makes at most
\* RETRIES + 1 connection attempts.
C15_BoundedAttempts == \A h \in Reconnecting : proc[h].attempts <= RETRIES + 1

\* C15, where it happens: a reconnection is at its last permitted attempt
C15_LastAttempt == \E h \in Reconnecting : proc[h].attempts = RETRIES + 1

\* C17: a close or error notification for one session never starts the
\* teardown of the whole pool.
C17_NoTeardownFromSession == \A h \in Handlers : proc[h].kind = "pagedisc" => h \notin InTeardown

\* C17, where it happens: a notification for one session is being handled
C17_HandlingSession == \E h \in Handlers : proc[h].kind = "pagedisc" /\ proc[h].pc = "rp_create"

\* C19: every request in flight eventually receives a response, provided every
\* remote call and every timer eventually settles.
C19_EveryRequestAnswered ==
    \A t \in Tasks : (proc[t].kind = "withPage") ~> (proc[t].kind = "returned")

\* C19, where it happens: a request is in flight while the connection is down
C19_InFlightDuringOutage ==
    \E t \in Tasks : proc[t].kind = "withPage" /\ browser # 0 /\ ~ConnUp(browser)

C28_FailedSlotNotAcquired ==
    [][\A t \in Tasks : AcquireReturns(t) => obs'[t].gotSlot \notin unusable]_vars

\* C28, where it happens: the replacement of a slot of the pool has failed
C28_ReplacementFailed == unusable \cap PoolSlots # {}

\* the releases and replacements in flight on a slot that is no longer in the pool
StaleOps == {p \in Procs : /\ proc[p].pc \in {"rel_reset", "rp_close", "rp_create"}
                           /\ proc[p].slot \notin PoolSlots}

\* C29: a release or replacement that is in flight on a slot of a torn-down
\* pool never frees, overwrites or adds a slot of the current pool.
C29_StaleOpsLeavePoolAlone ==
    [][\A p \in StaleOps : proc'[p] # proc[p] =>
          /\ pool' = pool
          /\ arrays'[pool] = arrays[pool]
          /\ \A s \in PoolSlots : slots'[s] = slots[s]]_vars

\* C29, where it happens: the pool has been rebuilt while a replacement on a
\* slot of the old pool is creating its session
C29_StaleReplacement ==
    PoolArr # <<>> /\ \E p \in StaleOps : proc[p].pc = "rp_create"

\* ---- what the RPC handler answers
Answered(t) == rpc[t].state = "done"
AllFailed(t) == rpc[t].attempts = Len(rpc[t].errors)

\* C21: a request in flight has no response yet, a request that is done has
\* exactly one: a success response if an attempt succeeded, else an error response
C21_ExactlyOneResponse ==
    \A t \in Tasks :
        /\ Len(rpc[t].responses) = IF Answered(t) THEN 1 ELSE 0
        /\ Answered(t) =>
              /\ rpc[t].responses[1].result.present <=> ~AllFailed(t)
              /\ rpc[t].responses[1].error.present <=> AllFailed(t)

C21_AnsweredAfterFailures ==
    \E t \in Tasks : /\ Answered(t) /\ Len(rpc[t].errors) >= 2
                     /\ rpc[t].responses[1].result.present

\* C22: capturePDF is called at most retries + 1 times for a request, not
\* again after it has succeeded, and when every attempt failed the error
\* answered is the error of the last attempt
C22_LastErrorReported ==
    \A t \in Tasks :
        /\ rpc[t].attempts <= MaxCaptureAttempts
        /\ ~AllFailed(t) => Answered(t) /\ rpc[t].attempts = Len(rpc[t].errors) + 1
        /\ Answered(t) /\ AllFailed(t) /\ rpc[t].attempts > 0 =>
              rpc[t].responses[1].error.message = rpc[t].errors[Len(rpc[t].errors)]

C22_Exhausted ==
    \E t \in Tasks : /\ Answered(t) /\ AllFailed(t)
                     /\ rpc[t].attempts = MaxCaptureAttempts

\* C23: a request with another method than generatePdf is answered in the step
\* that receives it, with the RPC error 'Unknown method: <method>'; no attempt
\* is made for it and the pool and its connection stay as they are
C23_UnknownMethodAnswered ==
    [][\A t \in Tasks :
          rpc[t].state = "none" /\ rpc'[t].state # "none"
          /\ rpc'[t].method # "generatePdf" =>
              /\ rpc'[t].state = "done"
              /\ rpc'[t].attempts = 0
              /\ Len(rpc'[t].responses) = 1
              /\ rpc'[t].responses[1].error =
                    [present |-> TRUE, code |-> 0 - RPC_ERROR_CODE,
                     message |-> [text |-> "Unknown method: ", arg |-> rpc'[t].method]]
              /\ UNCHANGED <<browser, connecting, keepaliveInterval, timerActive,
                             pool, arrays, slots, pages, conns, proc, obs>>]_vars

C23_UnknownMethodSeen == \E t \in Tasks : Answered(t) /\ rpc[t].method = "ping"

\* C24: every response has status 200 and the id of its request, and holds
\* either the base64 text of the PDF or an error with code -32603, never both
\* and never neither
C24_Envelope ==
    \A t \in Tasks : \A k \in 1..Len(rpc[t].responses) :
        LET res == rpc[t].responses[k]
        IN  /\ res.status = 200
            /\ res.id = rpc[t].id
            /\ res.result.present # res.error.present
            /\ res.result.present => res.result.value = <<"base64", "pdf">>
            /\ res.error.present => res.error.code = 0 - 32603

C24_ErrorAnswered ==
    \E t \in Tasks : /\ Answered(t) /\ rpc[t].attempts = MaxCaptureAttempts
                        /\ rpc[t].responses[1].error.present
                        /\ rpc[t].id = "req-a"

\* C25: a render for a request that carries pdfOptions uses those options, a
\* render for a request without them uses the defaults
C25_CallerOptionsUsed ==
    \A t \in Tasks :
        rpc[t].render # "none" =>
            /\ rpc[t].params = "url+opts" => rpc[t].render = "caller"
            /\ rpc[t].params = "url" => rpc[t].render = "default"

C25_RenderedWithOptionsGiven ==
    \E t \in Tasks : rpc[t].params = "url+opts" /\ rpc[t].render # "none"

\* C26: without BROWSER_WS_ENDPOINT the server of part_000 never listens
C26_NoListenWithoutEndpoint ==
    server.revision = "part_000" /\ ~server.endpoint => ~server.listening

C26_RequestServedWithoutEndpoint ==
    /\ server.revision = "part_000" /\ ~server.endpoint
    /\ \E t \in Tasks : Answered(t) /\ rpc[t].method = "generatePdf"


\* ---- the lock of the BrowserManager
UnderLock(pc) == \E t \in Tasks : mgr.holder = t /\ mgr.task[t].pc = pc
Queued == {t \in Tasks : mgr.task[t].pc \in {"get_wait", "rel_wait"}}

\* C30: the mutex is not held while a reset to the blank target or a session
\* creation is in progress, and no caller's acquire or release waits for the
\* lock while a reset is in progress
C30_NoRemoteCallUnderLock ==
    /\ ~UnderLock("rel_reset")
    /\ ~UnderLock("get_create")
    /\ ~UnderLock("init_page")
    /\ (\E t \in Tasks : mgr.task[t].pc = "rel_reset") => Queued = {}

C30_AcquireWaitsForReset ==
    /\ UnderLock("rel_reset")
    /\ \E t \in Tasks : mgr.task[t].pc = "get_wait"


\* ---- when sessions are created
\* the activities that are inside createPage, awaiting newPage (line 39)
Creating == {p \in Procs : proc[p].pc \in {"init_page", "rp_create"}}

\* the step opens a session on the engine
SessionCreated == Len(pages') > Len(pages)

\* the step calls createPage from replacePage (line 220)
ReplaceCreates(p) == proc[p].pc = "rp_close" /\ proc'[p] # proc[p]

\* C31: a session is created only on the connection that is the current one
\* at that moment, and replacePage never calls createPage while browser is null
C31_CreatesOnlyWhileConnected ==
    [][/\ SessionCreated =>
             browser # 0 /\ pages'[Len(pages')].conn = browser
       /\ \A p \in Procs : ReplaceCreates(p) => browser # 0]_vars

C31_ReplacementAcrossLoss ==
    \E p \in Procs : /\ proc[p].pc = "rp_create"
                     /\ proc[p].conn # browser
                     /\ ConnUp(proc[p].conn)


\* ---- sessions the engine has reported
\* the sessions whose close or error notification is being handled
\* (handlePageDisconnection awaits replacePage, line 67)
BeingReplaced == {slots[proc[h].slot].page : h \in {h \in Handlers : proc[h].kind = "pagedisc"}}

\* the sessions that are closed: their close notification has been delivered
ClosedSessions == {q \in 1..Len(pages) : ~pages[q].open}

\* C32: acquirePage returns no session whose close or error notification has
\* been delivered: none that is closed and none that is being replaced
C32_FailedSessionNotAcquired ==
    [][\A t \in Tasks : AcquireReturns(t) =>
          obs'[t].got \notin (ClosedSessions \cup BeingReplaced)]_vars

C32_IdleSessionFailed ==
    \E s \in PoolSlots : /\ ~slots[s].inUse
                         /\ slots[s].page \in (ClosedSessions \cup BeingReplaced)


\* ---- withPage after initialize
\* the callers whose `await this.initialize()` has returned and whose
\* acquirePage is about to begin (lines 256-259)
AboutToAcquire == {t \in Tasks : proc[t].pc = "wp_acquire"}

\* C33: when acquirePage begins for a caller that found no connection, the
\* connection is open, no initialize is in progress and the pool has its
\* POOL_SIZE slots
C33_InitializedBeforeAcquire ==
    [][\A t \in AboutToAcquire : proc'[t] # proc[t] =>
          /\ browser # 0
          /\ ~connecting
          /\ Len(PoolArr) = POOL_SIZE]_vars

C33_InitializeWasNoop == \E t \in AboutToAcquire : connecting


\* ---- the reset of a session on release
\* the callers that hold a slot whose session has not been reset yet: their
\* action is running or their releasePage awaits the reset (line 237)
Unreset == {t \in Holders : proc[t].pc \in {"wp_action", "rel_reset"}}

\* the sessions that show a caller's content: acquired and not yet reset
Dirty == {obs[t].got : t \in Unreset}

\* C34: from the acquire of a slot until the reset of its session has finished
\* the slot stays inUse, and acquirePage returns no session that still shows
\* another caller's content
C34_InUseUntilReset ==
    [][/\ \A t \in Unreset' : slots'[obs'[t].gotSlot].inUse
       /\ \A t \in Tasks : AcquireReturns(t) => obs'[t].got \notin Dirty]_vars

\* C34, where it happens: a reset is awaited for a slot that another caller
\* has acquired in the meantime
C34_ResetOfSharedSlot ==
    \E t, u \in Holders : /\ t # u
                          /\ proc[t].pc = "rel_reset"
                          /\ proc[u].pc = "wp_action"
                          /\ proc[t].slot = obs[u].gotSlot


\* ---- the health check
Probing == {h \in Handlers : proc[h].kind = "probe"}

\* C35: a probe starts only on an existing connection and only one at a time
\* per tick, and starting it changes neither the pool nor the connection
\* state; a probe that settles either succeeded, and then the pool, its slots,
\* the sessions and the connection state are as before, or failed, and then
\* handleBrowserDisconnection has started: the timer is cleared and the
\* activity is closing the pool's sessions or reconnecting
C35_ProbeOrReconnect ==
    [][/\ Probing' \ Probing # {} =>
             /\ browser # 0
             /\ Cardinality(Probing' \ Probing) = 1
             /\ UNCHANGED <<browser, connecting, keepaliveInterval, timerActive,
                            pool, arrays, slots, pages>>
       /\ \A h \in Probing : proc'[h] # proc[h] =>
             \/ /\ proc'[h] = NoProc
                /\ ConnUp(proc[h].conn)
                /\ UNCHANGED <<browser, connecting, keepaliveInterval, timerActive,
                               pool, arrays, slots, pages>>
             \/ /\ proc'[h].kind = "hbd"
                /\ proc'[h].pc \in {"hbd_close", "init_connect"}
                /\ ~keepaliveInterval']_vars

C35_ProbeFailedOnLiveConnection ==
    \E h \in Handlers : /\ proc[h].kind = "hbd"
                        /\ ret = NoRet
                        /\ disturb = MaxDisturb
                        /\ \A c \in 1..Len(conns) : conns[c]
                        /\ ~keepaliveInterval


\* ---- concurrency against the engine
\* C36: at most POOL_SIZE actions of withPage callers are in flight
C36_AtMostNActions == Cardinality(InAction) <= POOL_SIZE

\* C36, where it happens: the slot of a caller whose action is running has
\* been given another session
C36_ReplacedUnderAction ==
    \E t \in InAction : slots[obs[t].gotSlot].page # obs[t].got


\* ---- sessions without a slot
\* the sessions of the engine that are open and that no slot of this.pool holds
Orphans == {q \in 1..Len(pages) : PageUp(q) /\ \A s \in PoolSlots : slots[s].page # q}

\* C37: every open session created for the pool is held by a slot of the pool
C37_NoOrphan == Orphans = {}

\* C37, where it happens: two replacements are in flight on the same slot
C37_OverlappingReplacements ==
    \E p1, p2 \in Procs : /\ p1 # p2
                          /\ proc[p1].pc \in {"rp_close", "rp_create"}
                          /\ proc[p2].pc \in {"rp_close", "rp_create"}
                          /\ proc[p1].slot = proc[p2].slot


\* ---- the health-check timer
\* C38: at most one interval timer is scheduled, and none while browser is
\* null and no initialize is in progress
C38_TimerOnlyWhileConnected ==
    /\ timerActive <= 1
    /\ browser = 0 /\ ~connecting => timerActive = 0

\* C38, where it happens: two handleBrowserDisconnection runs overlap
C38_TwoTeardowns == Cardinality({h \in Handlers : proc[h].kind = "hbd"}) >= 2


\* ---- the frame of a failed acquire
\* the step in which acquirePage throws its timeout error to caller t
AcquireTimesOut(t) == ret'.task = t /\ ret'.outcome = "timeout"

\* the step in which acquirePage of caller t finds no free slot and sleeps
AcquireSleeps(t) == proc'[t].pc = "wp_sleep" /\ proc'[t] # proc[t]

\* C39: an acquirePage that times out changes no slot and neither adds nor
\* removes one, in the pass that throws and in the passes that slept before
C39_TimeoutLeavesPool ==
    [][\A t \in Tasks : AcquireTimesOut(t) \/ AcquireSleeps(t) =>
          UNCHANGED <<pool, arrays, slots, pages, browser>>]_vars

C39_TimedOutAfterWaiting ==
    /\ ret.outcome = "timeout" /\ ret.elapsed > MAX_WAIT_MS
    /\ \E s \in PoolSlots : slots[s].inUse

====
